---- MODULE Spec2Model ----
(***************************************************************************)
(* Controle NF (streamlit_app.py): a Streamlit script that lists the files *)
(* of a Drive folder, extracts the text of each new file (text, PDF text   *)
(* layer, OCR), recovers invoice fields from the text with regular         *)
(* expressions and keyword windows, and upserts one row per file into a    *)
(* data sheet and one record per file into the Processed_Files ledger.     *)
(*                                                                         *)
(* Text is modelled as Python models it: a str is a sequence of            *)
(* characters, each character a one-symbol string; indices in operator     *)
(* names such as find and Slice are Python's (0-based), indices into the   *)
(* sequences are TLA+'s (1-based).  The regular expressions are modelled   *)
(* by matchers that return what re.search would capture.                   *)
(***************************************************************************)
EXTENDS Integers, Sequences, FiniteSets, TLC

(***************************************************************************)
(* Characters and the str methods the script uses.                         *)
(***************************************************************************)
None == <<"None">>

Digit == {"0","1","2","3","4","5","6","7","8","9"}

AsciiLetter ==
    LET AsciiUpper ==
            {"A","B","C","D","E","F","G","H","I","J","K","L","M",
             "N","O","P","Q","R","S","T","U","V","W","X","Y","Z"}
        AsciiLower ==
            {"a","b","c","d","e","f","g","h","i","j","k","l","m",
             "n","o","p","q","r","s","t","u","v","w","x","y","z"}
    IN  AsciiUpper \cup AsciiLower

\* what str.strip() removes and what \s matches
Whitespace == {" ", "\n", "\t"}

LowerSeq ==
    <<"a","b","c","d","e","f","g","h","i","j","k","l","m",
      "n","o","p","q","r","s","t","u","v","w","x","y","z",
      "á","ã","ç","é","í","ó","õ">>

UpperSeq ==
    <<"A","B","C","D","E","F","G","H","I","J","K","L","M",
      "N","O","P","Q","R","S","T","U","V","W","X","Y","Z",
      "Á","Ã","Ç","É","Í","Ó","Õ">>

Min(S) == CHOOSE x \in S : \A y \in S : x <= y

Max(S) == CHOOSE x \in S : \A y \in S : x >= y

Rep(c, n) == [i \in 1..n |-> c]

\* the character at 1-based index i, "" beyond the ends
At(t, i) == IF i >= 1 /\ i <= Len(t) THEN t[i] ELSE ""

\* the capital of each lower-case letter
Capital ==
    [c \in {LowerSeq[i] : i \in 1..Len(LowerSeq)} |->
        UpperSeq[CHOOSE i \in 1..Len(LowerSeq) : LowerSeq[i] = c]]

\* str.upper(): every lower-case letter becomes its capital and the sharp s
\* becomes the TWO characters SS, so the result can be longer than t
RECURSIVE upper(_)
upper(t) ==
    LET \* str.upper() of a character other than the sharp s
        upper_char(c) == IF c \in DOMAIN Capital THEN Capital[c] ELSE c
    IN  LET sharp == {i \in 1..Len(t) : t[i] = "ß"}
        IN  IF sharp = {} THEN [i \in 1..Len(t) |-> upper_char(t[i])]
            ELSE upper(SubSeq(t, 1, Min(sharp) - 1)) \o <<"S", "S">>
                     \o upper(SubSeq(t, Min(sharp) + 1, Len(t)))

\* the small letter of each capital
Small ==
    [c \in {UpperSeq[i] : i \in 1..Len(UpperSeq)} |->
        LowerSeq[CHOOSE i \in 1..Len(UpperSeq) : UpperSeq[i] = c]]

\* str.lower()
lower(t) == [i \in 1..Len(t) |-> IF t[i] \in DOMAIN Small THEN Small[t[i]] ELSE t[i]]

\* str.find(needle): the least 0-based index at which needle occurs, -1 if none
find(hay, needle) ==
    LET at == {i \in 0..(Len(hay) - Len(needle)) :
                  \A k \in 1..Len(needle) : hay[i + k] = needle[k]}
    IN  IF at = {} THEN -1 ELSE Min(at)

\* needle in hay
contains(hay, needle) ==
    \E i \in 0..(Len(hay) - Len(needle)) :
        \A k \in 1..Len(needle) : hay[i + k] = needle[k]

\* the slice t[a:b] for 0 <= a
Slice(t, a, b) == SubSeq(t, a + 1, IF b < Len(t) THEN b ELSE Len(t))

\* str.strip()
strip(t) ==
    LET keep == {i \in 1..Len(t) : t[i] \notin Whitespace}
    IN  IF keep = {} THEN <<>> ELSE SubSeq(t, Min(keep), Max(keep))

\* str.splitlines(): the pieces between line breaks, no empty last piece
RECURSIVE splitlines(_)
splitlines(t) ==
    IF t = <<>> THEN <<>>
    ELSE LET nl == find(t, <<"\n">>)
         IN  IF nl = -1 THEN <<t>>
             ELSE <<SubSeq(t, 1, nl)>> \o splitlines(SubSeq(t, nl + 2, Len(t)))

\* sep.join(parts)
RECURSIVE join(_, _)
join(sep, parts) ==
    IF parts = <<>> THEN <<>>
    ELSE IF Len(parts) = 1 THEN parts[1]
    ELSE parts[1] \o sep \o join(sep, Tail(parts))

\* str.endswith(suffix)
endswith(t, suffix) ==
    Len(t) >= Len(suffix) /\ SubSeq(t, Len(t) - Len(suffix) + 1, Len(t)) = suffix

(***************************************************************************)
(* Regular-expression pieces.  Positions are 1-based indices of the next   *)
(* character to read; a matcher returns the position after the match, or 0 *)
(* when there is no match at that place.                                   *)
(***************************************************************************)
\* n digits from position i
DigitsAt(t, i, n) == \A k \in 0..(n - 1) : At(t, i + k) \in Digit

\* the length of the run of digits at i, at most n long (a greedy \d{..n})
DigitRun(t, i, n) ==
    LET runs == {k \in 0..n : DigitsAt(t, i, k)} IN Max(runs)

\* the positions a greedy x* over the class cls can stop at, from i
StarEnds(t, i, cls) ==
    {j \in i..(Len(t) + 1) : \A k \in i..(j - 1) : t[k] \in cls}

\* an optional single character of the class seps (greedy)
OptSep(t, i, seps) == IF At(t, i) \in seps THEN i + 1 ELSE i

\* the literal lit at position i
LitAt(t, i, lit) ==
    /\ i + Len(lit) - 1 <= Len(t)
    /\ \A k \in 1..Len(lit) : t[i + k - 1] = lit[k]

\* the literals of the patterns
CNPJ_LIT == <<"C","N","P","J">>

EMISSAO_LIT == <<"E","M","I","S","S","Ã","O">>

DATAHORA_LIT == <<"D","A","T","A","/","H","O","R","A">>

(***************************************************************************)
(* CNPJ_RE and DATE_RE.  Both begin with an optional label that holds no   *)
(* digit and is followed at once by the capture group; search returns the  *)
(* group of the leftmost place at which label and group match.             *)
(***************************************************************************)
\* group 1 of CNPJ_RE: [0-9]{2}[./-]?[0-9]{3}[./-]?[0-9]{3}[/-]?[0-9]{4}[-]?[0-9]{2}
CnpjGroupEnd(t, i) ==
    LET b == OptSep(t, i + 2, {".", "/", "-"})
        d == OptSep(t, b + 3, {".", "/", "-"})
        f == OptSep(t, d + 3, {"/", "-"})
        h == OptSep(t, f + 4, {"-"})
    IN  IF /\ DigitsAt(t, i, 2) /\ DigitsAt(t, b, 3) /\ DigitsAt(t, d, 3)
           /\ DigitsAt(t, f, 4) /\ DigitsAt(t, h, 2)
        THEN h + 2 ELSE 0

\* where the optional label (?:CNPJ[:\s]|C.?NPJ[:\s]|CNPJ\s*)? can end, from s
CnpjLabelEnds(t, s) ==
    LET NPJ_LIT == <<"N","P","J">>
    IN  LET sep == {":"} \cup Whitespace
        IN  {s}
            \cup (IF LitAt(t, s, CNPJ_LIT) /\ At(t, s + 4) \in sep THEN {s + 5} ELSE {})
            \cup (IF /\ At(t, s) = "C" /\ At(t, s + 1) \notin {"", "\n"}
                     /\ LitAt(t, s + 2, NPJ_LIT) /\ At(t, s + 5) \in sep
                  THEN {s + 6} ELSE {})
            \cup (IF LitAt(t, s, CNPJ_LIT) THEN StarEnds(t, s + 4, Whitespace) ELSE {})

\* CNPJ_RE.search(t).group(1), None when nothing matches
CNPJ_RE_search(t) ==
    LET \* the characters a match of CNPJ_RE can begin with: a digit or the label's C
        CnpjFirst == Digit \cup {"C"}
    IN  LET hits == {s \in 1..Len(t) :
                        /\ t[s] \in CnpjFirst
                        /\ \E e \in CnpjLabelEnds(t, s) : CnpjGroupEnd(t, e) # 0}
        IN  IF hits = {} THEN None
            ELSE LET s == Min(hits)
                     e == CHOOSE e \in CnpjLabelEnds(t, s) : CnpjGroupEnd(t, e) # 0
                 IN  SubSeq(t, e, CnpjGroupEnd(t, e) - 1)

\* the end of the day-first form of group 1 of DATE_RE at i, 0 when it does
\* not match
DateDMYEnd(t, i) ==
    LET \* \d{1,2}[/-]\d{1,2}[/-]\d{2,4}(?:\s+\d{1,2}:\d{1,2}(?::\d{1,2})?)?, piece by
        \* piece: each operator is given the position reached and the length of the
        \* digit run read there
        DateSeconds(q2, ss) == IF At(t, q2) = ":" /\ ss >= 1 THEN q2 + 1 + ss ELSE q2
        DateMinutes(p3, q1, mi) ==
            IF mi >= 1 THEN DateSeconds(q1 + 1 + mi, DigitRun(t, q1 + 2 + mi, 2)) ELSE p3
        DateHours(p3, ws, hh) ==
            IF hh >= 1 /\ At(t, ws + hh) = ":"
            THEN DateMinutes(p3, ws + hh, DigitRun(t, ws + hh + 1, 2))
            ELSE p3
        DateTime(p3, ws) == IF ws > p3 THEN DateHours(p3, ws, DigitRun(t, ws, 2)) ELSE p3
        DateYear(p2, y) ==
            IF y >= 2 THEN DateTime(p2 + 1 + y, Max(StarEnds(t, p2 + 1 + y, Whitespace))) ELSE 0
        DateMonth(p1, m) ==
            IF m >= 1 /\ At(t, p1 + 1 + m) \in {"/", "-"}
            THEN DateYear(p1 + 1 + m, DigitRun(t, p1 + 2 + m, 4))
            ELSE 0
        DateDay(d) ==
            IF d >= 1 /\ At(t, i + d) \in {"/", "-"}
            THEN DateMonth(i + d, DigitRun(t, i + d + 1, 2))
            ELSE 0
    IN  DateDay(DigitRun(t, i, 2))

\* the end of the ISO form of group 1 of DATE_RE at i, 0 when it does not match
DateISOEnd(t, i) ==
    LET \* \d{4}-\d{1,2}-\d{1,2}
        DateISODay(p, d) == IF At(t, p) = "-" /\ d >= 1 THEN p + 1 + d ELSE 0
        DateISOMonth(m) ==
            IF DigitsAt(t, i, 4) /\ At(t, i + 4) = "-" /\ m >= 1
            THEN DateISODay(i + 5 + m, DigitRun(t, i + 6 + m, 2))
            ELSE 0
    IN  DateISOMonth(DigitRun(t, i + 5, 2))

\* group 1 of DATE_RE: the day-first form is tried before the ISO form
DateGroupEnd(t, i) ==
    LET \* the first of two ends that is one
        FirstEnd(a, b) == IF a # 0 THEN a ELSE b
    IN  FirstEnd(DateDMYEnd(t, i), DateISOEnd(t, i))

\* where the optional label of DATE_RE can end, from s:
\* (?:DATA(?:\s*DE\s*EMISSÃO)?[:\s]*|EMISSÃO[:\s]*|DATA/HORA[:\s]*|DATA[:\s]*|DATE[:\s]*)?
DateLabelEnds(t, s) ==
    LET DE_LIT == <<"D","E">>
        DATA_LIT == <<"D","A","T","A">>
        DATE_LIT == <<"D","A","T","E">>
    IN  LET sep == {":"} \cup Whitespace
            de  == {a \in StarEnds(t, s + 4, Whitespace) : LitAt(t, a, DE_LIT)}
            em  == UNION {{b \in StarEnds(t, a + 2, Whitespace) : LitAt(t, b, EMISSAO_LIT)} :
                             a \in de}
        IN  {s}
            \cup (IF LitAt(t, s, DATA_LIT)
                  THEN StarEnds(t, s + 4, sep)
                       \cup UNION {StarEnds(t, b + Len(EMISSAO_LIT), sep) : b \in em}
                  ELSE {})
            \cup (IF LitAt(t, s, EMISSAO_LIT)
                  THEN StarEnds(t, s + Len(EMISSAO_LIT), sep) ELSE {})
            \cup (IF LitAt(t, s, DATAHORA_LIT)
                  THEN StarEnds(t, s + Len(DATAHORA_LIT), sep) ELSE {})
            \cup (IF LitAt(t, s, DATE_LIT) THEN StarEnds(t, s + 4, sep) ELSE {})

\* where the label of a match that begins at s ends and its group begins
DateGroupStarts(t, s) == {e \in DateLabelEnds(t, s) : DateGroupEnd(t, e) # 0}

\* DATE_RE.search(t).group(1), None when nothing matches
DATE_RE_search(t) ==
    LET \* the characters a match of DATE_RE can begin with: a digit or the first
        \* letter of a label
        DateFirst == Digit \cup {"D", "E"}
        \* the group that begins at e
        DateGroup(e) == SubSeq(t, e, DateGroupEnd(t, e) - 1)
        \* the group of the match at the leftmost of the places hits
        DateLeftmost(hits) ==
            IF hits = {} THEN None ELSE DateGroup(Min(DateGroupStarts(t, Min(hits))))
    IN  DateLeftmost({s \in 1..Len(t) : t[s] \in DateFirst /\ DateGroupStarts(t, s) # {}})

(***************************************************************************)
(* The keyword tables of extract_fields_from_text.                         *)
(***************************************************************************)
date_keywords ==
    << <<"D","A","T","A"," ","D","E"," ","E","M","I","S","S","Ã","O">>,
       <<"E","M","I","S","S","Ã","O">>,
       <<"D","A","T","A","/","H","O","R","A">>,
       <<"D","A","T","A">>,
       <<"D","A","T","E">> >>

start_keywords ==
    << <<"I","T","E","N","S">>,
       <<"D","E","S","C","R","I","Ç","Ã","O">>,
       <<"P","R","O","D","U","T","O","S"," ","E"," ","S","E","R","V","I","Ç","O","S">>,
       <<"D","E","T","A","L","H","E","S"," ","D","A"," ","V","E","N","D","A">>,
       <<"C","U","P","O","M"," ","F","I","S","C","A","L">>,
       <<"N","O","T","A"," ","F","I","S","C","A","L">>,
       <<"D","I","S","C","R","I","M","I","N","A","Ç","Ã","O">>,
       <<"V","A","L","O","R"," ","T","O","T","A","L"," ","D","O"," ","S","E","R","V","I","Ç","O">>,
       <<"S","E","R","V","I","Ç","O","S"," ","P","R","E","S","T","A","D","O","S">>,
       <<"I","T","E","M">>,
       <<"Q","T","D">>,
       <<"U","N">>,
       <<"V","A","L","O","R">> >>

end_keywords ==
    << <<"V","A","L","O","R"," ","T","O","T","A","L">>,
       <<"S","U","B","T","O","T","A","L">>,
       <<"T","O","T","A","L"," ","A"," ","P","A","G","A","R">>,
       <<"F","O","R","M","A","S"," ","D","E"," ","P","A","G","A","M","E","N","T","O">>,
       <<"O","B","S","E","R","V","A","Ç","Õ","E","S">>,
       <<"I","N","F","O","R","M","A","Ç","Õ","E","S"," ","A","D","I","C","I","O","N","A","I","S">>,
       <<"P","A","G","A","M","E","N","T","O">>,
       <<"T","O","T","A","L"," ","G","E","R","A","L">>,
       <<"D","A","D","O","S"," ","B","A","N","C","Á","R","I","O","S">>,
       <<"I","M","P","O","S","T","O","S">>,
       <<"T","O","T","A","L"," ","L","I","Q","U","I","D","O">> >>

ignore_keywords_items ==
    << <<"S","U","B","T","O","T","A","L">>,
       <<"T","O","T","A","L">>,
       <<"I","M","P","O","S","T","O","S">>,
       <<"I","C","M","S">>,
       <<"I","S","S">>,
       <<"D","E","S","C","O","N","T","O">>,
       <<"V","A","L","O","R"," ","T","O","T","A","L">>,
       <<"T","O","T","A","L"," ","D","A"," ","N","O","T","A">>,
       <<"F","O","R","M","A"," ","D","E"," ","P","A","G","A","M","E","N","T","O">>,
       <<"T","R","O","C","O">>,
       <<"C","R","É","D","I","T","O">>,
       <<"D","É","B","I","T","O">>,
       <<"D","I","N","H","E","I","R","O">>,
       <<"V","A","L","O","R">>,
       <<"C","P","F"," ","D","O"," ","C","O","N","S","U","M","I","D","O","R">>,
       <<"C","N","P","J">>,
       <<"I","E">>,
       <<"C","U","P","O","M"," ","F","I","S","C","A","L">>,
       <<"S","A","T"," ","N","O">>,
       <<"N","O","T","A"," ","F","I","S","C","A","L">>,
       <<"L","A","N","Ç","A","M","E","N","T","O">>,
       <<"D","A","T","A">>,
       <<"C","Ó","D","I","G","O">>,
       <<"U","N","I","D","A","D","E">>,
       <<"Q","T","D">>,
       <<"P","R","O","D","U","T","O">>,
       <<"D","E","S","C","R","I","Ç","Ã","O">>,
       <<"V","A","L","O","R"," ","U","N","I","T","Á","R","I","O">>,
       <<"V","A","L","O","R"," ","T","O","T","A","L">>,
       <<"C","L","I","E","N","T","E">>,
       <<"C","O","N","S","U","M","I","D","O","R">>,
       <<"E","N","D","E","R","E","Ç","O">>,
       <<"B","A","I","R","R","O">>,
       <<"C","I","D","A","D","E">>,
       <<"C","E","P">>,
       <<"C","O","N","T","A","T","O">>,
       <<"T","E","L","E","F","O","N","E">>,
       <<"C","N","P","J","/","C","P","F">>,
       <<"C","P","F","/","C","N","P","J">>,
       <<"I","E","S","T">>,
       <<"D","I","S","C","R","I","M","I","N","A","Ç","Ã","O"," ","D","O","S"," ","S","E","R","V","I","Ç","O","S">>,
       <<"T","O","T","A","L"," ","D","O"," ","S","E","R","V","I","Ç","O">>,
       <<"P","R","E","S","T","A","D","O","R"," ","D","E"," ","S","E","R","V","I","Ç","O","S">>,
       <<"T","O","M","A","D","O","R"," ","D","E"," ","S","E","R","V","I","Ç","O","S">> >>

(***************************************************************************)
(* extract_fields_from_text: the tax id, the date and the item lines.      *)
(***************************************************************************)
\* 1. out["cnpj"] = m.group(1) if m else None
extract_cnpj(t) == CNPJ_RE_search(t)

\* the snippet text[idx:idx + 60] of a date keyword, idx its first index in
\* t_upper = text.upper(); None when the keyword does not occur
DateWindow == 60

date_at_keyword(t, t_upper, kw) ==
    LET date_snippet ==
            LET idx == find(t_upper, kw)
            IN  IF idx = -1 THEN None ELSE Slice(t, idx, idx + DateWindow)
        \* DATE_RE.search(snippet) for the snippet of a keyword, None without one
        search_snippet(snippet) == IF snippet = None THEN None ELSE DATE_RE_search(snippet)
    IN  search_snippet(date_snippet)

\* the value kept, or the other one when there is none
or_else(a, b) == IF a # None THEN a ELSE b

\* a variant without the keyword snippets
extract_data_compra_unanchored(t) == DATE_RE_search(t)

\* 4. out["data_compra"]: keyword snippets first, the whole text otherwise
extract_data_compra(t) ==
    LET \* the date of the first of the keywords ks (places in date_keywords)
        first_keyword_date(t_upper, ks) ==
            IF ks = {} THEN None ELSE date_at_keyword(t, t_upper, date_keywords[Min(ks)])
        \* the loop over date_keywords: the first keyword, in list order, whose
        \* snippet holds a date gives the value, and the loop ends there
        date_by_keyword(t_upper) ==
            first_keyword_date(t_upper, {k \in 1..Len(date_keywords) : date_at_keyword(t, t_upper, date_keywords[k]) # None})
    IN  or_else(date_by_keyword(upper(t)), DATE_RE_search(t))

\* any(kw in line_upper for kw in kws)
has_keyword(line_upper, kws) ==
    \E k \in 1..Len(kws) : contains(line_upper, kws[k])

(***************************************************************************)
(* The supplier name (empresa): three tiers.                               *)
(***************************************************************************)
Lowercase == {LowerSeq[i] : i \in 1..Len(LowerSeq)} \cup {"ß"}

Uppercase == {UpperSeq[i] : i \in 1..Len(UpperSeq)}

Cased == Lowercase \cup Uppercase

\* what \w matches
WordChar == Cased \cup Digit \cup {"_"}

\* str.isupper(): a cased character, and no lower-case one
isupper(l) ==
    /\ \E i \in 1..Len(l) : l[i] \in Cased
    /\ \A i \in 1..Len(l) : l[i] \notin Lowercase

\* str.istitle(): a cased character, capitals only after uncased characters
\* and lower-case letters only after cased ones
istitle(l) ==
    /\ \E i \in 1..Len(l) : l[i] \in Cased
    /\ \A i \in 1..Len(l) :
           /\ l[i] \in Uppercase => At(l, i - 1) \notin Cased
           /\ l[i] \in Lowercase => At(l, i - 1) \in Cased

\* \b before position p
word_boundary(t, p) == (At(t, p - 1) \in WordChar) # (At(t, p) \in WordChar)

\* re.search(r"\d{1,2}/\d{1,2}/\d{2,4}", u)
has_slash_date(u) ==
    \E i \in 1..Len(u) :
        /\ u[i] \in Digit
        /\ At(u, i + 1) = "/"
        /\ \E b \in 1..2 :
               DigitsAt(u, i + 2, b) /\ At(u, i + 2 + b) = "/" /\ DigitsAt(u, i + 3 + b, 2)

company_keywords_strong ==
    << <<"L","T","D","A">>,
       <<"M","E","I">>,
       <<"E","I","R","E","L","I">>,
       <<"S",".","A",".">>,
       <<"S","A">>,
       <<"C","O","M","E","R","C","I","O">>,
       <<"S","E","R","V","I","C","O","S">>,
       <<"M","A","T","E","R","I","A","I","S">>,
       <<"I","N","D","U","S","T","R","I","A">>,
       <<"P","R","E","F","E","I","T","U","R","A">>,
       <<"M","U","N","I","C","Í","P","I","O">> >>

stripped_lines(t) ==
    LET \* lines = [l.strip() for l in text.splitlines() if l.strip()]
        strip_each(ls) == [i \in DOMAIN ls |-> strip(ls[i])]
        drop_empty(ls) == LET filled(l) == l # <<>> IN SelectSeq(ls, filled)
    IN  drop_empty(strip_each(splitlines(t)))

\* the test of the first tier on a line above the CNPJ
CompanyMinLen == 5

company_shaped(l, u) ==
    LET \* re.search(r"\b(w1|w2|..)\b", u)
        has_word(words) ==
            \E k \in 1..Len(words) :
                \E i \in 1..Len(u) :
                    /\ LitAt(u, i, words[k])
                    /\ word_boundary(u, i)
                    /\ word_boundary(u, i + Len(words[k]))
        \* re.search(r"\d{3}\.\d{3}\.\d{3}-\d{2}", u)
        has_cpf_number ==
            \E i \in 1..Len(u) :
                /\ DigitsAt(u, i, 3) /\ At(u, i + 3) = "."
                /\ DigitsAt(u, i + 4, 3) /\ At(u, i + 7) = "."
                /\ DigitsAt(u, i + 8, 3) /\ At(u, i + 11) = "-"
                /\ DigitsAt(u, i + 12, 2)
        company_words ==
            << <<"L","T","D","A">>,
               <<"S","A">>,
               <<"S",".","A",".">>,
               <<"M","E">>,
               <<"E","P","P">>,
               <<"E","I","R","E","L","I">>,
               <<"C","O","M","E","R","C","I","O">>,
               <<"S","E","R","V","I","C","O","S">>,
               <<"P","R","E","F","E","I","T","U","R","A">> >>
        address_words ==
            << <<"R","U","A">>,
               <<"A","V","E","N","I","D","A">>,
               <<"B","A","I","R","R","O">>,
               <<"C","E","P">>,
               <<"C","P","F">> >>
    IN  /\ Len(l) > CompanyMinLen
        /\ isupper(l) \/ istitle(l) \/ has_word(company_words)
        /\ ~(has_slash_date(u) \/ has_cpf_number \/ has_keyword(u, address_words))

looks_like_company(l) == company_shaped(l, upper(l))

\* lines_before_cnpj, cnpj_pos being text.find(out["cnpj"])
lines_before(t, cnpj_pos) ==
    IF cnpj_pos = -1 THEN <<>> ELSE stripped_lines(Slice(t, 0, cnpj_pos))

\* a variant that starts at the top of the text
farthest_company(ls, hits) == IF hits = {} THEN None ELSE ls[Min(hits)]

\* for i in range(len(lines_before_cnpj) - 1, -1, -1): the last of the lines
\* that pass the test, hits being their places
nearest_company(ls, hits) == IF hits = {} THEN None ELSE ls[Max(hits)]

\* the test of the second tier on a line of the search area, for a keyword
StrongMinLen == 10

strong_shaped(l, u, kw) ==
    LET \* re.search(r"\d{3}-\d{3}", u)
        has_phone_number ==
            \E i \in 1..Len(u) : DigitsAt(u, i, 3) /\ At(u, i + 3) = "-" /\ DigitsAt(u, i + 4, 3)
        \* re.search(r"\d+\,\d+|\d+\.\d+", u)
        has_decimal_number ==
            \E i \in 1..Len(u) :
                u[i] \in Digit /\ At(u, i + 1) \in {",", "."} /\ At(u, i + 2) \in Digit
        contact_words ==
            << <<"R","U","A">>,
               <<"A","V","E","N","I","D","A">>,
               <<"B","A","I","R","R","O">>,
               <<"C","E","P">>,
               <<"C","P","F">>,
               <<"T","E","L","E","F","O","N","E">>,
               <<"E","M","A","I","L">>,
               <<"W","W","W">> >>
    IN  /\ contains(u, kw)
        /\ Len(l) > StrongMinLen
        /\ ~(\/ has_slash_date(u) \/ has_phone_number \/ has_decimal_number
             \/ has_keyword(u, contact_words))

has_strong_keyword(l, kw) == strong_shaped(l, upper(l), kw)

\* search_area: lines[:10]
SearchAreaLines == 10

first_lines(ls, n) == SubSeq(ls, 1, IF Len(ls) < n THEN Len(ls) ELSE n)

company_by_keyword(ls) ==
    LET \* the first line of ls that passes the test for keyword kw
        first_with_keyword(ls1, kw) ==
            ls1[Min({i \in DOMAIN ls1 : has_strong_keyword(ls1[i], kw)})]
        first_strong(ls2, ks) ==
            IF ks = {} THEN None ELSE first_with_keyword(ls2, company_keywords_strong[Min(ks)])
        \* the second tier: the first keyword, in list order, that a line of the
        \* search area passes the test for, and the first such line
        company_in_area(ls1) ==
            first_strong(ls1, {k \in 1..Len(company_keywords_strong) :
                    \E i \in DOMAIN ls1 : has_strong_keyword(ls1[i], company_keywords_strong[k])})
    IN  company_in_area(first_lines(ls, SearchAreaLines))

\* the test of the third tier
TopMinLen == 10

top_shaped(l, u) ==
    LET id_words ==
            << <<"C","N","P","J">>,
               <<"C","P","F">>,
               <<"R","U","A">>,
               <<"A","V","E","N","I","D","A">>,
               <<"B","A","I","R","R","O">>,
               <<"C","E","P">> >>
    IN  /\ Len(l) > TopMinLen
        /\ isupper(l) \/ istitle(l)
        /\ ~(has_slash_date(u) \/ has_keyword(u, id_words))

looks_like_heading(l) == top_shaped(l, upper(l))

\* lines[:3]
TopLines == 3

\* the third tier: the first of the first three lines that passes the test
company_at_top(ls) ==
    LET first_heading(ls2, hits) == IF hits = {} THEN None ELSE ls2[Min(hits)]
        company_among(ls1) == first_heading(ls1, {i \in DOMAIN ls1 : looks_like_heading(ls1[i])})
    IN  company_among(first_lines(ls, TopLines))

\* 2. out["empresa"]: the first tier that finds a line
extract_empresa(t, cnpj) ==
    LET company_in(ls) == nearest_company(ls, {i \in DOMAIN ls : looks_like_company(ls[i])})
        \* the first tier: a line above the CNPJ
        company_above ==
            IF cnpj = None THEN None ELSE company_in(lines_before(t, find(t, cnpj)))
        \* the second and third tiers, on lines
        company_from_lines(ls) == or_else(company_by_keyword(ls), company_at_top(ls))
    IN  or_else(company_above, company_from_lines(stripped_lines(t)))

(***************************************************************************)
(* VAL_RE and normalize_money: the monetary total.                         *)
(***************************************************************************)
\* the end of (?:\.\d{3})* from p on
RECURSIVE ThousandsEnd(_, _)
ThousandsEnd(t, p) ==
    IF At(t, p) = "." /\ DigitsAt(t, p + 1, 3) THEN ThousandsEnd(t, p + 4) ELSE p

\* the end of (?:,\d{2}) at p, 0 when it does not match
CentsEnd(t, p) == IF At(t, p) = "," /\ DigitsAt(t, p + 1, 2) THEN p + 3 ELSE 0

\* where the group of a match that begins with the R at s begins: R\$?\s*
ValGroupStart(t, s) == Max(StarEnds(t, OptSep(t, s + 1, {"$"}), Whitespace))

\* the end of the match of VAL_RE that begins at s, 0 without one
ValMatchEnd(t, s) ==
    LET \* group 1 of VAL_RE at i, r the length of the run of digits there:
        \* \d{1,3}(?:\.\d{3})*(?:,\d{2}) for a run of up to three digits, \d+,\d{2}
        \* for a longer one
        ValGroup(i, r) ==
            IF r = 0 THEN 0
            ELSE IF r <= 3 THEN CentsEnd(t, ThousandsEnd(t, i + r))
            ELSE CentsEnd(t, i + r)
        ValGroupEnd(i) == ValGroup(i, DigitRun(t, i, Len(t)))
    IN  IF At(t, s) = "R" THEN ValGroupEnd(ValGroupStart(t, s)) ELSE 0

\* group 1 of the match that begins at s
ValGroupAt(t, s) == SubSeq(t, ValGroupStart(t, s), ValMatchEnd(t, s) - 1)

\* the places from position from on where a match begins
ValHits(t, from) == {s \in from..Len(t) : ValMatchEnd(t, s) # 0}

\* the leftmost of them, 0 when there is none
ValLeftmost(hits) == IF hits = {} THEN 0 ELSE Min(hits)

VAL_RE_search(t) ==
    LET \* VAL_RE.search(t).group(1), None when nothing matches
        ValGroupOrNone(s) == IF s = 0 THEN None ELSE ValGroupAt(t, s)
    IN  ValGroupOrNone(ValLeftmost(ValHits(t, 1)))

\* VAL_RE.findall(t): the groups of the matches, left to right, each search
\* starting where the match before ended
RECURSIVE val_findall(_, _)
RECURSIVE val_collect(_, _)
val_collect(t, s) ==
    IF s = 0 THEN <<>> ELSE <<ValGroupAt(t, s)>> \o val_findall(t, ValMatchEnd(t, s))

val_findall(t, from) == val_collect(t, ValLeftmost(ValHits(t, from)))

VAL_RE_findall(t) == val_findall(t, 1)

\* re.sub(r"[Rr]\$?\s*", "", s) from position i on
RECURSIVE strip_currency(_, _)
strip_currency(s, i) ==
    IF i > Len(s) THEN <<>>
    ELSE IF s[i] \in {"R", "r"}
    THEN strip_currency(s, Max(StarEnds(s, OptSep(s, i + 1, {"$"}), Whitespace)))
    ELSE <<s[i]>> \o strip_currency(s, i + 1)

\* the number a run of digits writes
RECURSIVE int_value(_, _)
int_value(ds, acc) ==
    LET DigitSeq == <<"0","1","2","3","4","5","6","7","8","9">>
        digit_value(c) == (CHOOSE n \in 1..10 : DigitSeq[n] = c) - 1
    IN  IF ds = <<>> THEN acc ELSE int_value(Tail(ds), 10 * acc + digit_value(Head(ds)))

\* None where a number is expected: amounts are not negative
NoAmount == -1

\* normalize_money(s), in hundredths
normalize_money(s) ==
    LET \* s.replace(".", "") and then s.replace(",", ".")
        drop_dots(s1) == LET kept(c) == c # "." IN SelectSeq(s1, kept)
        comma_to_dot(s1) == [i \in 1..Len(s1) |-> IF s1[i] = "," THEN "." ELSE s1[i]]
        \* the digits of decimals, filled up to two places
        two_places(decimals) == SubSeq(decimals \o <<"0", "0">>, 1, 2)
        \* float(s) in hundredths, for digits with up to two decimals (the group of
        \* VAL_RE has two); NoAmount stands for the ValueError of any other text
        float_of(s2, w) ==
            IF w = 0 \/ w + 3 < Len(s2) THEN NoAmount
            ELSE IF w = Len(s2) THEN 100 * int_value(s2, 0)
            ELSE IF s2[w + 1] = "." /\ DigitsAt(s2, w + 2, Len(s2) - w - 1)
            THEN 100 * int_value(SubSeq(s2, 1, w), 0)
                     + int_value(two_places(SubSeq(s2, w + 2, Len(s2))), 0)
            ELSE NoAmount
        to_float(s1) == float_of(s1, DigitRun(s1, 1, Len(s1)))
    IN  IF s = None \/ s = <<>> THEN NoAmount
        ELSE to_float(comma_to_dot(drop_dots(strip_currency(strip(s), 1))))

total_keywords ==
    << <<"V","A","L","O","R"," ","T","O","T","A","L">>,
       <<"T","O","T","A","L"," ","D","A"," ","N","O","T","A">>,
       <<"T","O","T","A","L"," ","G","E","R","A","L">>,
       <<"T","O","T","A","L"," ","A"," ","P","A","G","A","R">>,
       <<"T","O","T","A","L"," ","A"," ","R","E","C","E","B","E","R">>,
       <<"S","U","B","T","O","T","A","L">> >>

\* the snippet text[idx:idx + 150] of a total keyword
TotalWindow == 150

total_at_keyword(t, t_upper, kw) ==
    LET total_snippet ==
            LET idx == find(t_upper, kw)
            IN  IF idx = -1 THEN None ELSE Slice(t, idx, idx + TotalWindow)
        \* normalize_money(mval.group(1)) for the snippet of a keyword, None when the
        \* keyword or a value is missing
        search_total(snippet) ==
            IF snippet = None THEN NoAmount ELSE normalize_money(VAL_RE_search(snippet))
    IN  search_total(total_snippet)

\* nums_parsed: the values of all_vals that normalize_money reads
nums_parsed(all_vals) ==
    {normalize_money(all_vals[i]) : i \in DOMAIN all_vals} \ {NoAmount}

total_fallback(t) ==
    LET \* max(nums_parsed), None without a value
        max_or_none(nums) == IF nums = {} THEN NoAmount ELSE Max(nums)
    IN  max_or_none(nums_parsed(VAL_RE_findall(t)))

\* a variant that takes the largest value whatever the keywords say
extract_valor_total_largest(t) == total_fallback(t)

\* 6. out["valor_total"]: keyword snippets first, the largest value otherwise
extract_valor_total(t) ==
    LET first_keyword_total(t_upper, ks) ==
            IF ks = {} THEN NoAmount ELSE total_at_keyword(t, t_upper, total_keywords[Min(ks)])
        \* the loop over the total keywords: the first keyword, in list order, whose
        \* snippet holds a value gives the total
        total_by_keyword(t_upper) ==
            first_keyword_total(t_upper, {k \in 1..Len(total_keywords) :
                    total_at_keyword(t, t_upper, total_keywords[k]) # NoAmount})
        \* if total is None: the other value
        if_none(total, other) == IF total # NoAmount THEN total ELSE other
    IN  if_none(total_by_keyword(upper(t)), total_fallback(t))

\* re.search(r"\d+,\d{2}", line)
has_comma_money(line) ==
    \E i \in 1..Len(line) :
        line[i] \in Digit /\ At(line, i + 1) = "," /\ DigitsAt(line, i + 2, 2)

\* re.search(r"\d+\.\d{2}", line)
has_dot_money(line) ==
    \E i \in 1..Len(line) :
        line[i] \in Digit /\ At(line, i + 1) = "." /\ DigitsAt(line, i + 2, 2)

\* re.search(r"[a-zA-Z]{n,}", line)
has_letters(line, n) ==
    \E i \in 1..Len(line) : \A k \in 0..(n - 1) : At(line, i + k) \in AsciiLetter

\* the first alternative of the second pattern, anchored at the line's start:
\* ^\d+(\s*[X\*x]\s*)?\d*\s*(?:UN|QTDE|PÇ|KG|LT|M)\s*[a-zA-Z0-9\s]+?\s+\d+,\d{2}
has_quantity_item(line) ==
    LET QuantityUnits ==
            {<<"U","N">>, <<"Q","T","D","E">>, <<"P","Ç">>, <<"K","G">>, <<"L","T">>, <<"M">>}
    IN  LET after(P, cls) == UNION {StarEnds(line, p, cls) : p \in P}
            plus(P, cls)  == UNION {StarEnds(line, p, cls) \ {p} : p \in P}
            p1 == plus({1}, Digit)
            x  == {a + 1 : a \in {a \in after(p1, Whitespace) : At(line, a) \in {"X", "*", "x"}}}
            p2 == p1 \cup after(x, Whitespace)
            p4 == after(after(p2, Digit), Whitespace)
            p5 == UNION {{p + Len(u) : u \in {u \in QuantityUnits : LitAt(line, p, u)}} : p \in p4}
            p7 == plus(after(p5, Whitespace), AsciiLetter \cup Digit \cup Whitespace)
            p8 == plus(p7, Whitespace)
        IN  \E q \in plus(p8, Digit) : At(line, q) = "," /\ DigitsAt(line, q + 1, 2)

\* a variant that takes every line for an item
is_potential_item_any(line_clean) == TRUE

\* is_potential_item: the three criteria of the item test
is_potential_item(line_clean) ==
    \/ /\ has_comma_money(line_clean) \/ has_dot_money(line_clean)
       /\ has_letters(line_clean, 1)
       /\ Len(line_clean) > 5
    \/ has_quantity_item(line_clean) \/ has_dot_money(line_clean)
    \/ /\ has_letters(line_clean, 5)
       /\ \E i \in 1..Len(line_clean) : line_clean[i] \in Digit
       /\ Len(line_clean) > 10

StartLineLimit == 100

ItemCap == 40

\* the state of the item loop before its first line; captured (the numbers of
\* the lines appended to items) is kept for the properties only
ScanStart ==
    [in_items_section |-> FALSE, stopped |-> FALSE, items |-> <<>>, captured |-> <<>>]

\* the first test of the loop body: the line opens the item section
opens_items(line_clean, line_upper) ==
    has_keyword(line_upper, start_keywords) /\ Len(line_clean) < StartLineLimit

\* a variant that looks for the end keywords in the line as written
closes_items_as_written(line_clean, line_upper) == has_keyword(line_clean, end_keywords)

\* the second test: the line closes the item section (break)
closes_items(line_clean, line_upper) == has_keyword(line_upper, end_keywords)

\* one pass of the body of "for line in text.splitlines()" on line number n
scan_line(st, line, n) ==
    LET line_clean == strip(line)
        line_upper == upper(line_clean)
    IN  IF ~st.in_items_section /\ opens_items(line_clean, line_upper)
        THEN [st EXCEPT !.in_items_section = TRUE]
        ELSE IF ~st.in_items_section THEN st
        ELSE IF closes_items(line_clean, line_upper) THEN [st EXCEPT !.stopped = TRUE]
        ELSE IF /\ is_potential_item(line_clean)
                /\ ~has_keyword(line_upper, ignore_keywords_items)
             THEN [st EXCEPT !.items = Append(@, line_clean),
                             !.captured = Append(@, n)]
             ELSE st

\* the whole loop from line n on
RECURSIVE scan_from(_, _, _)
scan_from(st, lines, n) ==
    IF n > Len(lines) \/ st.stopped THEN st
    ELSE scan_from(scan_line(st, lines[n], n), lines, n + 1)

\* out["itens_descricoes"] = "\n".join(items[:40]) if items else None
itens_descricoes(items) ==
    IF items = <<>> THEN None
    ELSE join(<<"\n">>, SubSeq(items, 1, IF Len(items) < ItemCap THEN Len(items) ELSE ItemCap))

\* the fields of out this development follows
extract_fields_from_text(t) ==
    [cnpj |-> extract_cnpj(t),
     empresa |-> extract_empresa(t, extract_cnpj(t)),
     data_compra |-> extract_data_compra(t),
     valor_total |-> extract_valor_total(t),
     itens_descricoes |-> itens_descricoes(scan_from(ScanStart, splitlines(t), 1).items)]

(***************************************************************************)
(* State.  The first six variables follow one call of                      *)
(* extract_fields_from_text line by line: the text, the position in the    *)
(* function (fpc), the fields found (out), the list the item loop runs     *)
(* over (lines), the state of the loop (scan) and the number of the line   *)
(* it reads next.  The others follow the script: the Drive folder, the two *)
(* worksheets, and one press of the main button from the listing of the    *)
(* folder to the summary (pc is the position in that run).                 *)
(***************************************************************************)
VARIABLES text, fpc, out, lines, scan, lineNo,
          pc, cv2, folder, clock, reprocess_all, ws_data, ws_proc,
          files_to_process, existing_data_df, idx, results_rows, processed_rows,
          tmp_files, downloaded, content, actual_mime, kind, branch, native,
          ocr_calls, passes, extracted, combined_df, existing_proc_df,
          combined_proc, run_result,
          pressed, confirm_clear_clicked, confirm_clear_final, spreadsheet_id

fvars == <<text, fpc, out, lines, scan, lineNo>>

\* what outlives a run: the machine, the folder, the clock and the sheets
world == <<cv2, folder, clock, ws_data, ws_proc>>

\* the names bound before the loop over files_to_process
selection == <<reprocess_all, files_to_process, existing_data_df>>

\* the lists the loop fills
collected == <<results_rows, processed_rows>>

\* the names of one pass of the loop
locals == <<content, actual_mime, kind, branch, native, ocr_calls, passes, extracted>>

\* the names bound by the two writes
written == <<combined_df, existing_proc_df, combined_proc>>

\* the sidebar: the widget whose use started the script, the flag of the
\* session state, the confirmation checkbox as the browser holds it, and
\* whether the field of the spreadsheet id is filled in
ui == <<pressed, confirm_clear_clicked, confirm_clear_final, spreadsheet_id>>

rvars == <<pc, world, selection, idx, collected, tmp_files, downloaded, locals,
           written, run_result, ui>>

vars == <<fvars, rvars>>

NoFields ==
    [cnpj |-> None, empresa |-> None, data_compra |-> None, valor_total |-> NoAmount,
     itens_descricoes |-> None]

\* sequences of at most n elements of S
SeqsUpTo(S, n) == UNION {[1..k -> S] : k \in 0..n}

RECURSIVE concat(_)
concat(parts) == IF parts = <<>> THEN <<>> ELSE Head(parts) \o concat(Tail(parts))

\* the elements of a sequence
Range(s) == {s[i] : i \in DOMAIN s}

(***************************************************************************)
(* The run: values of the script.                                          *)
(***************************************************************************)
\* a name the script has not bound (combined_df, combined_proc), and a bound
\* data frame
Unbound == [bound |-> FALSE, rows |-> <<>>]

Frame(rows) == [bound |-> TRUE, rows |-> rows]

\* a worksheet: whether its first row is the expected header, and the records
\* below it; a sheet that does not exist yet reads like an empty one
EmptySheet == [header |-> FALSE, rows |-> <<>>]

\* the MIME types Drive and libmagic report
TEXT_PLAIN == <<"t","e","x","t","/","p","l","a","i","n">>

PDF_MIME == <<"a","p","p","l","i","c","a","t","i","o","n","/","p","d","f">>

PNG_MIME == <<"i","m","a","g","e","/","p","n","g">>

DOCX_MIME == <<"a","p","p","l","i","c","a","t","i","o","n","/","v","n","d",".","o","p","e","n","x","m","l","f","o","r","m","a","t","s","-","o","f","f","i","c","e","d","o","c","u","m","e","n","t",".","w","o","r","d","p","r","o","c","e","s","s","i","n","g","m","l",".","d","o","c","u","m","e","n","t">>

PDF_EXT == <<".","p","d","f">>

\* tmpf.name: NamedTemporaryFile(delete=False, suffix=".bin")
TempPath == <<"/","t","m","p","/","t","m","p","a","1","b","2","c","3",".","b","i","n">>

\* the temporary file of file fid in run c, as an entry of the local disk
TempName(c, fid) == <<c, fid>>

\* what a file of the folder is and what Drive says it is: plain text, a
\* Google document (exported as text), a PDF, a PNG, a Word document, and
\* a PNG that Drive lists without an image type
DriveFiles ==
    LET GOOGLE_DOC == <<"a","p","p","l","i","c","a","t","i","o","n","/","v","n","d",".","g","o","o","g","l","e","-","a","p","p","s",".","d","o","c","u","m","e","n","t">>
        OCTET_STREAM == <<"a","p","p","l","i","c","a","t","i","o","n","/","o","c","t","e","t","-","s","t","r","e","a","m">>
    IN  { [content |-> "text",  mime |-> TEXT_PLAIN],
          [content |-> "text",  mime |-> GOOGLE_DOC],
          [content |-> "pdf",   mime |-> PDF_MIME],
          [content |-> "image", mime |-> PNG_MIME],
          [content |-> "docx",  mime |-> DOCX_MIME],
          [content |-> "image", mime |-> OCTET_STREAM] }

\* magic.from_file(path, mime=True) of such a file, when it succeeds
MagicMime(c) ==
    CASE c = "text"  -> TEXT_PLAIN
      [] c = "pdf"   -> PDF_MIME
      [] c = "image" -> PNG_MIME
      [] c = "docx"  -> DOCX_MIME

\* the text of a text file or of a recognition pass
CNPJ_LINE == <<"C","N","P","J",":"," ","1","2",".","3","4","5",".","6","7","8","/","0","0","0","1","-","9","5">>

FileTexts == {<<>>, <<" ", "\n">>, CNPJ_LINE}

\* nothing, 23, 49 and 50 characters
OcrTexts == {<<>>, CNPJ_LINE, CNPJ_LINE \o Rep("x", 26), CNPJ_LINE \o Rep("x", 27)}

\* a page of a PDF: it has no text layer, reading it raises, or it has text
NoTextLayer == None

PageRaises == <<"Raise">>

\* page texts of 29 and of 30 characters
PageOutcomes ==
    {NoTextLayer, PageRaises, CNPJ_LINE \o Rep("x", 5), CNPJ_LINE \o Rep("x", 6)}

MaxFiles == 2

MaxRuns == 2

MaxPages == 2

(***************************************************************************)
(* The run: functions.                                                     *)
(***************************************************************************)
\* extract_text_from_pdf: the text layers of the pages, each followed by a
\* line break; an exception ends the loop and what was read is returned
RECURSIVE pdf_text(_, _)
pdf_text(pages, acc) ==
    IF pages = <<>> \/ Head(pages) = PageRaises THEN acc
    ELSE pdf_text(Tail(pages),
                  IF Head(pages) = NoTextLayer THEN acc
                  ELSE acc \o Head(pages) \o <<"\n">>)

extract_text_from_pdf(pages) == pdf_text(pages, <<>>)

\* the two recognition passes of a page or image: the second one is run, and
\* its result kept, when the first gives fewer than 50 characters
PassThreshold == 50

\* not txt.strip() or len(txt.strip()) < 50
second_pass(t1) == strip(t1) = <<>> \/ Len(strip(t1)) < PassThreshold

ocr_passes(t1, t2) == IF second_pass(t1) THEN t2 ELSE t1

\* a variant that reads any file as an image
extract_text_via_ocr_any(path, c, npages, t1, t2, tesseract) == ocr_passes(t1, t2)

\* extract_text_via_ocr(path) on a file that is c, t1 and t2 being what the
\* two passes read and tesseract whether pytesseract works.  A path ending
\* in .pdf is read page by page (npages pages); any other is opened as an
\* image, which raises for a file that is none.  With OpenCV installed
\* preprocess_image_for_ocr raises NameError (np is not a name of the
\* module).  Every exception is caught and the text read so far returned.
extract_text_via_ocr(path, c, npages, t1, t2, tesseract) ==
    IF endswith(lower(path), PDF_EXT)
    THEN IF c # "pdf" \/ cv2 \/ ~tesseract THEN <<>>
         ELSE concat([p \in 1..npages |-> ocr_passes(t1, t2) \o <<"\n">>])
    ELSE IF c # "image" \/ cv2 \/ ~tesseract THEN <<>>
         ELSE ocr_passes(t1, t2)

\* what the recognition passes of that call returned, in order: nothing when
\* the call raised before its first pass
ocr_reads(path, c, t1, t2, tesseract) ==
    IF c # (IF endswith(lower(path), PDF_EXT) THEN "pdf" ELSE "image") \/ cv2 \/ ~tesseract
    THEN <<>>
    ELSE IF second_pass(t1) THEN <<t1, t2>> ELSE <<t1>>

\* the branch of the type dispatch a downloaded file takes
dispatch(mime, k, path) ==
    LET \* the substrings and extensions the type dispatch looks for
        TEXT_WORD == <<"t","e","x","t">>
        PDF_WORD == <<"p","d","f">>
        IMAGE_WORD == <<"i","m","a","g","e">>
        IMAGE_EXTS == {<<".","p","n","g">>, <<".","j","p","g">>, <<".","j","p","e","g">>, <<".","t","i","f","f">>, <<".","b","m","p">>}
    IN  IF mime = TEXT_PLAIN \/ contains(k, TEXT_WORD) THEN "text"
        ELSE IF contains(k, PDF_WORD) \/ endswith(lower(path), PDF_EXT) THEN "pdf"
        ELSE IF \/ contains(k, IMAGE_WORD)
                \/ \E e \in IMAGE_EXTS : endswith(lower(path), e) THEN "image"
        ELSE "fallback"

\* the PDF branch goes on to OCR: not extracted or len(extracted.strip()) < 30
OcrThreshold == 30

\* a variant that measures the text as read
needs_ocr_unstripped(t) == t = <<>> \/ Len(t) < OcrThreshold

needs_ocr(t) == t = <<>> \/ Len(strip(t)) < OcrThreshold

\* not extracted or len(extracted.strip()) == 0
no_text(t) == t = <<>> \/ Len(strip(t)) = 0

\* a sheet after the header check of the run: a sheet whose first row is not
\* the header is cleared and given the header
ensure_header(ws) == IF ws.header THEN ws ELSE [header |-> TRUE, rows |-> <<>>]

\* processed_ids: the fileId column of the ledger
processed_ids(records) == {records[i].fileId : i \in DOMAIN records}

\* a variant that takes the whole folder
select_files_all(files, ids, reprocess) == files

\* files_to_process
select_files(files, ids, reprocess) ==
    IF reprocess THEN files
    ELSE LET new(f) == f \notin ids IN SelectSeq(files, new)

\* the row of a file, from the fields of its text
data_row(fid, now, fields) ==
    [drive_file_id |-> fid, timestamp_import |-> now, empresa |-> fields.empresa,
     cnpj |-> fields.cnpj,
     data_compra |-> fields.data_compra, valor_total |-> fields.valor_total,
     descricao_itens |-> fields.itens_descricoes]

\* the record of a file in the ledger
proc_record(fid, now, note) == [fileId |-> fid, processed_at |-> now, note |-> note]

\* combined_df: the existing rows whose drive_file_id is not among the new
\* rows, then the new rows
upsert_data(existing, new) ==
    LET ids == {new[i].drive_file_id : i \in DOMAIN new}
        kept(r) == r.drive_file_id \notin ids
    IN  SelectSeq(existing, kept) \o new

\* sort_values("processed_at"): the records of each instant, in time order
RECURSIVE sort_values(_, _)
sort_values(records, t) ==
    IF t > clock THEN <<>>
    ELSE LET at(r) == r.processed_at = t
         IN  SelectSeq(records, at) \o sort_values(records, t + 1)

\* a variant that keeps the first record of each fileId
drop_duplicates_first(records) ==
    LET keep == {i \in DOMAIN records :
                    \A j \in DOMAIN records : j < i => records[j].fileId # records[i].fileId}
    IN  [n \in 1..Cardinality(keep) |->
            records[CHOOSE i \in keep : Cardinality({j \in keep : j <= i}) = n]]

\* drop_duplicates(subset=["fileId"], keep="last")
drop_duplicates(records) ==
    LET last == {i \in DOMAIN records :
                    \A j \in DOMAIN records : j > i => records[j].fileId # records[i].fileId}
        n == Cardinality(last)
        nth(k) == CHOOSE i \in last : Cardinality({j \in last : j < i}) = k - 1
    IN  [k \in 1..n |-> records[nth(k)]]

\* combined_proc
upsert_proc(existing, new) == drop_duplicates(sort_values(existing \o new, 0))

(***************************************************************************)
(* One call of extract_fields_from_text.                                   *)
(***************************************************************************)
\* texts of receipts: lines of a small vocabulary, joined by line breaks
MaxItemLines == 4

ItemTexts ==
    LET ItemLines ==
            { <<"I","T","E","N","S">>,
              <<"I","T","E","N","S"," ">> \o Rep("x", 95),
              <<"P","a","g","a","m","e","n","t","o">>,
              <<"C","a","f","e"," ","1","0",",","0","0">>,
              <<"V","A","L","O","R"," ","T","O","T","A","L"," ","9",",","0","0">> }
    IN  {join(<<"\n">>, ls) : ls \in SeqsUpTo(ItemLines, MaxItemLines)}

\* lines of an item section: the heading, an item with a price, a line with a
\* number that is no price, a price alone, a discount, a greeting
MaxShapeLines == 3

ShapeTexts ==
    LET ShapeLines ==
            { <<"I","T","E","N","S">>,
              <<"C","a","f","e"," ","1","0",",","0","0">>,
              <<"P","A","R","A","F","U","S","O"," ","1","2">>,
              <<"1",".","5","0">>,
              <<"D","e","s","c","o","n","t","o"," ","1",",","0","0">>,
              <<"O","b","r","i","g","a","d","o">> }
    IN  {join(<<"\n">>, ls) : ls \in SeqsUpTo(ShapeLines, MaxShapeLines)}

\* texts around a supplier name: a short name in capitals, four lines that
\* are no name, the line of the CNPJ, a name with a legal suffix, and a name
\* in capitals without one
MaxNameChunks == 4

NameTexts ==
    LET NameChunks ==
            { <<"A","C","M","E"," ","S","A">>,
              <<"o","b","s","\n","o","b","s","\n","o","b","s","\n","o","b","s">>,
              CNPJ_LINE,
              <<"L","o","j","a"," ","B","o","a"," ","L","t","d","a">>,
              <<"M","E","R","C","A","D","O"," ","D","O"," ","Z","É">> }
    IN  {join(<<"\n">>, cs) : cs \in SeqsUpTo(NameChunks, MaxNameChunks)}

\* texts around a date: a label, a filler, two dates, the second after a
\* character whose capital is two characters long
MaxDateChunks == 5

DateTexts ==
    LET DateChunks ==
            { <<"D","a","t","a"," ">>,
              Rep("x", 50),
              <<"1","/","2","/","2","4">>,
              <<"ß","2","0","2","3","-","1","2","-","3","1">> }
    IN  {concat(cs) : cs \in SeqsUpTo(DateChunks, MaxDateChunks)}

\* texts around a total: a label followed by a long filler, a label followed
\* by a value, and a larger value without a label
MaxTotalChunks == 4

TotalTexts ==
    LET TotalChunks ==
            { <<"T","O","T","A","L"," ","G","E","R","A","L"," ">> \o Rep("x", 140),
              <<"T","O","T","A","L"," ","G","E","R","A","L"," ","R","$"," ","5",",","0","0"," ">>,
              <<"R","$"," ","1",".","2","3","9",",","0","0"," ">> }
    IN  {concat(cs) : cs \in SeqsUpTo(TotalChunks, MaxTotalChunks)}

FieldsInit(texts) ==
    LET \* no run is under way and none has been: the state of the run variables
        \* while a call of extract_fields_from_text is followed on its own
        NoRun ==
            /\ pc = "off"
            /\ cv2 = FALSE
            /\ folder = <<>>
            /\ clock = 0
            /\ reprocess_all = FALSE
            /\ ws_data = EmptySheet
            /\ ws_proc = EmptySheet
            /\ files_to_process = <<>>
            /\ existing_data_df = <<>>
            /\ idx = 0
            /\ results_rows = <<>>
            /\ processed_rows = <<>>
            /\ tmp_files = {}
            /\ downloaded = {}
            /\ content = "none"
            /\ actual_mime = None
            /\ kind = None
            /\ branch = "none"
            /\ native = None
            /\ ocr_calls = 0
            /\ passes = <<>>
            /\ extracted = <<>>
            /\ combined_df = Unbound
            /\ existing_proc_df = Unbound
            /\ combined_proc = Unbound
            /\ run_result = "none"
            /\ pressed = "none"
            /\ confirm_clear_clicked = FALSE
            /\ confirm_clear_final = FALSE
            /\ spreadsheet_id = FALSE
    IN  /\ text \in texts
        /\ fpc = "start"
        /\ out = NoFields
        /\ lines = <<>>
        /\ scan = ScanStart
        /\ lineNo = 1
        /\ NoRun

\* sections 1 to 7 of the function, the fields found before the item loop,
\* and the start of the loop over text.splitlines()
ExtractHeader ==
    /\ fpc = "start"
    /\ out' = [out EXCEPT !.cnpj = extract_cnpj(text),
                          !.empresa = extract_empresa(text, extract_cnpj(text)),
                          !.data_compra = extract_data_compra(text),
                          !.valor_total = extract_valor_total(text)]
    /\ lines' = splitlines(text)
    /\ fpc' = "items"
    /\ UNCHANGED <<text, scan, lineNo, rvars>>

\* one pass of the item loop
ScanLine ==
    /\ fpc = "items"
    /\ ~scan.stopped
    /\ lineNo <= Len(lines)
    /\ scan' = scan_line(scan, lines[lineNo], lineNo)
    /\ lineNo' = lineNo + 1
    /\ UNCHANGED <<text, fpc, out, lines, rvars>>

\* the loop is over (break, or no line left): the items are joined and out
\* is returned
ReturnFields ==
    /\ fpc = "items"
    /\ scan.stopped \/ lineNo > Len(lines)
    /\ out' = [out EXCEPT !.itens_descricoes = itens_descricoes(scan.items)]
    /\ fpc' = "returned"
    /\ UNCHANGED <<text, lines, scan, lineNo, rvars>>

FieldsNext == ExtractHeader \/ ScanLine \/ ReturnFields

SpecItems == FieldsInit(ItemTexts) /\ [][FieldsNext]_vars

SpecDate == FieldsInit(DateTexts) /\ [][FieldsNext]_vars

SpecTotal == FieldsInit(TotalTexts) /\ [][FieldsNext]_vars

SpecShape == FieldsInit(ShapeTexts) /\ [][FieldsNext]_vars

SpecName == FieldsInit(NameTexts) /\ [][FieldsNext]_vars

(***************************************************************************)
(* The script: files arrive in the folder, and the main button is pressed. *)
(***************************************************************************)

\* the names of a pass are dropped
DropLocals ==
    /\ content' = "none"
    /\ actual_mime' = None
    /\ kind' = None
    /\ branch' = "none"
    /\ native' = None
    /\ ocr_calls' = 0
    /\ passes' = <<>>
    /\ extracted' = <<>>

Init ==
    LET \* the names of a run that is over or has not begun
        Idle ==
            /\ reprocess_all = FALSE
            /\ files_to_process = <<>>
            /\ existing_data_df = <<>>
            /\ idx = 0
            /\ results_rows = <<>>
            /\ processed_rows = <<>>
            /\ downloaded = {}
            /\ combined_df = Unbound
            /\ existing_proc_df = Unbound
            /\ combined_proc = Unbound
        \* the names of one pass of the loop before the pass binds them
        NoLocals ==
            /\ content = "none"
            /\ actual_mime = None
            /\ kind = None
            /\ branch = "none"
            /\ native = None
            /\ ocr_calls = 0
            /\ passes = <<>>
            /\ extracted = <<>>
    IN  /\ text = <<>>
        /\ fpc = "off"
        /\ out = NoFields
        /\ lines = <<>>
        /\ scan = ScanStart
        /\ lineNo = 0
        /\ pc = "idle"
        /\ cv2 \in BOOLEAN
        /\ folder = <<>>
        /\ clock = 0
        /\ ws_data = EmptySheet
        /\ ws_proc = EmptySheet
        /\ tmp_files = {}
        /\ run_result = "none"
        /\ pressed = "none"
        /\ confirm_clear_clicked = FALSE
        /\ confirm_clear_final = FALSE
        /\ spreadsheet_id \in BOOLEAN
        /\ Idle
        /\ NoLocals

\* a file is put into the Drive folder
Upload ==
    /\ pc = "idle"
    /\ Len(folder) < MaxFiles
    /\ folder' = Append(folder, Len(folder) + 1)
    /\ UNCHANGED <<fvars, pc, cv2, clock, ws_data, ws_proc, selection, idx, collected,
                   tmp_files, downloaded, locals, written, run_result, ui>>

\* the run variables no use of the sidebar touches outside the main block
run_names == <<selection, idx, collected, tmp_files, downloaded, locals, written,
               run_result>>

\* a sheet after clear() and append_row(header)
ClearedSheet == [header |-> TRUE, rows |-> <<>>]

\* the user presses "Limpar Dados da Planilha"
PressClear ==
    /\ pc = "idle"
    /\ pressed' = "clear"
    /\ pc' = "script"
    /\ UNCHANGED <<fvars, world, run_names, confirm_clear_clicked, confirm_clear_final,
                   spreadsheet_id>>

\* the user ticks or unticks the confirmation checkbox, which is on the page
\* when the last script run drew it
ToggleConfirm ==
    /\ pc = "idle"
    /\ confirm_clear_clicked \/ confirm_clear_final
    /\ confirm_clear_final' = ~confirm_clear_final
    /\ pressed' = "confirm"
    /\ pc' = "script"
    /\ UNCHANGED <<fvars, world, run_names, confirm_clear_clicked, spreadsheet_id>>

\* the user presses "Cancelar Limpeza", drawn when the checkbox is not ticked
PressCancel ==
    /\ pc = "idle"
    /\ confirm_clear_clicked /\ ~confirm_clear_final
    /\ pressed' = "cancel"
    /\ pc' = "script"
    /\ UNCHANGED <<fvars, world, run_names, confirm_clear_clicked, confirm_clear_final,
                   spreadsheet_id>>

\* the user fills in or empties the field of the spreadsheet id
EditSpreadsheetId ==
    /\ pc = "idle"
    /\ spreadsheet_id' = ~spreadsheet_id
    /\ pressed' = "spreadsheet_id"
    /\ pc' = "script"
    /\ UNCHANGED <<fvars, world, run_names, confirm_clear_clicked, confirm_clear_final>>

\* the user presses the main button
PressMain ==
    /\ pc = "idle"
    /\ clock < MaxRuns
    /\ pressed' = "main"
    /\ pc' = "script"
    /\ UNCHANGED <<fvars, world, run_names, confirm_clear_clicked, confirm_clear_final,
                   spreadsheet_id>>

\* the script up to the clear button: the flag is set when the button was
\* pressed
ClearButton ==
    /\ pc = "script"
    /\ confirm_clear_clicked' = (confirm_clear_clicked \/ pressed = "clear")
    /\ pc' = "confirm"
    /\ UNCHANGED <<fvars, world, run_names, pressed, confirm_clear_final, spreadsheet_id>>

\* a variant that leaves the flag set after an error
ClearFails_flag_kept ==
    /\ confirm_clear_clicked' = TRUE
    /\ pc' = "main"
    /\ UNCHANGED <<pressed, confirm_clear_final>>
    /\ \/ UNCHANGED <<ws_data, ws_proc>>
       \/ ws_data' = EmptySheet /\ UNCHANGED ws_proc
       \/ ws_data' = ClearedSheet /\ UNCHANGED ws_proc
       \/ ws_data' = ClearedSheet /\ ws_proc' = EmptySheet

\* the try block raises, at the opening of the spreadsheet or of a sheet,
\* or after a clear(): the flag is reset in the handler
ClearFails ==
    /\ confirm_clear_clicked' = FALSE
    /\ pc' = "main"
    /\ UNCHANGED <<pressed, confirm_clear_final>>
    /\ \/ UNCHANGED <<ws_data, ws_proc>>
       \/ ws_data' = EmptySheet /\ UNCHANGED ws_proc
       \/ ws_data' = ClearedSheet /\ UNCHANGED ws_proc
       \/ ws_data' = ClearedSheet /\ ws_proc' = EmptySheet

\* both sheets are cleared and given their header, the flag is reset and
\* the script is run again
ClearSucceeds ==
    /\ ws_data' = ClearedSheet
    /\ ws_proc' = ClearedSheet
    /\ confirm_clear_clicked' = FALSE
    /\ pressed' = "none"
    /\ pc' = "script"
    /\ UNCHANGED confirm_clear_final

\* the block "if st.session_state.confirm_clear_clicked": the checkbox is
\* drawn (a checkbox that is not drawn loses its tick), and with the tick
\* and a spreadsheet id the sheets are cleared; without the tick the cancel
\* button is drawn, which resets the flag and runs the script again
ConfirmClear ==
    /\ pc = "confirm"
    /\ IF ~confirm_clear_clicked
       THEN /\ confirm_clear_final' = FALSE
            /\ pc' = "main"
            /\ UNCHANGED <<ws_data, ws_proc, pressed, confirm_clear_clicked>>
       ELSE IF confirm_clear_final
       THEN IF ~spreadsheet_id
            THEN /\ pc' = "main"
                 /\ UNCHANGED <<ws_data, ws_proc, pressed, confirm_clear_clicked,
                                confirm_clear_final>>
            ELSE ClearSucceeds \/ ClearFails
       ELSE IF pressed = "cancel"
            THEN /\ confirm_clear_clicked' = FALSE
                 /\ pressed' = "none"
                 /\ pc' = "script"
                 /\ UNCHANGED <<ws_data, ws_proc, confirm_clear_final>>
            ELSE /\ pc' = "main"
                 /\ UNCHANGED <<ws_data, ws_proc, pressed, confirm_clear_clicked,
                                confirm_clear_final>>
    /\ UNCHANGED <<fvars, cv2, folder, clock, run_names, spreadsheet_id>>

\* the main button was not pressed, or an id is missing (st.stop()): the
\* script ends
EndScript ==
    /\ pc = "main"
    /\ ~(pressed = "main" /\ spreadsheet_id)
    /\ pressed' = "none"
    /\ pc' = "idle"
    /\ UNCHANGED <<fvars, world, run_names, confirm_clear_clicked, confirm_clear_final,
                   spreadsheet_id>>

\* the main button, with the checkbox as the user left it: the folder is
\* listed, both sheets are given their header, the ledger and the data sheet
\* are read and the files to process are chosen
StartRun ==
    /\ pc = "main"
    /\ pressed = "main"
    /\ spreadsheet_id
    /\ \E reprocess \in BOOLEAN :
           /\ reprocess_all' = reprocess
           /\ ws_data' = ensure_header(ws_data)
           /\ ws_proc' = ensure_header(ws_proc)
           /\ files_to_process' =
                  select_files(folder, processed_ids(ws_proc'.rows), reprocess)
           /\ existing_data_df' = ws_data'.rows
    /\ clock' = clock + 1
    /\ results_rows' = <<>>
    /\ processed_rows' = <<>>
    /\ downloaded' = {}
    /\ idx' = 1
    /\ run_result' = "running"
    /\ pc' = "loop"
    /\ pressed' = "none"
    /\ UNCHANGED <<fvars, cv2, folder, tmp_files, locals, written, confirm_clear_clicked,
                   confirm_clear_final, spreadsheet_id>>

\* the file the loop is at
fid == files_to_process[idx]

\* for f in files_to_process: the next file gets its temporary file, or the
\* loop is over
NextFile ==
    /\ pc = "loop"
    /\ IF idx <= Len(files_to_process)
       THEN /\ tmp_files' = tmp_files \cup {TempName(clock, fid)}
            /\ pc' = "download"
       ELSE /\ pc' = "write_data"
            /\ UNCHANGED tmp_files
    /\ UNCHANGED <<fvars, world, selection, idx, collected, downloaded, locals,
                   written, run_result, ui>>

\* download_drive_file: the bytes and the MIME type Drive gives, or an
\* exception
Download ==
    /\ pc = "download"
    /\ downloaded' = downloaded \cup {fid}
    /\ \/ \E f \in DriveFiles :
              /\ content' = f.content
              /\ actual_mime' = f.mime
              /\ pc' = "detect"
       \/ /\ pc' = "except"
          /\ UNCHANGED <<content, actual_mime>>
    /\ UNCHANGED <<fvars, world, selection, idx, collected, tmp_files, kind, branch,
                   native, ocr_calls, passes, extracted, written, run_result, ui>>

\* kind: what libmagic says, or the type Drive gave when libmagic raises
DetectKind ==
    /\ pc = "detect"
    /\ kind' \in {MagicMime(content), actual_mime}
    /\ pc' = "acquire"
    /\ UNCHANGED <<fvars, world, selection, idx, collected, tmp_files, downloaded,
                   content, actual_mime, branch, native, ocr_calls, passes, extracted,
                   written, run_result, ui>>

\* the type dispatch: the text of the file by the branch its type selects
AcquireText ==
    /\ pc = "acquire"
    /\ branch' = dispatch(actual_mime, kind, TempPath)
    /\ \/ /\ branch' = "text"
          /\ \/ /\ extracted' \in FileTexts
                /\ pc' = "extract"
             \/ /\ extracted' = <<>>
                /\ pc' = "except"
          /\ native' = None
          /\ ocr_calls' = 0
          /\ passes' = <<>>
       \/ /\ branch' = "pdf"
          /\ \E pages \in SeqsUpTo(PageOutcomes, MaxPages) :
                 /\ native' = extract_text_from_pdf(pages)
                 /\ IF needs_ocr(native')
                    THEN /\ \E t1 \in OcrTexts, t2 \in OcrTexts, tesseract \in BOOLEAN :
                                /\ extracted' = extract_text_via_ocr(TempPath, content,
                                                     Len(pages), t1, t2, tesseract)
                                /\ passes' = ocr_reads(TempPath, content, t1, t2, tesseract)
                         /\ ocr_calls' = 1
                    ELSE /\ extracted' = native'
                         /\ ocr_calls' = 0
                         /\ passes' = <<>>
          /\ pc' = "extract"
       \/ /\ branch' \in {"image", "fallback"}
          /\ \E t1 \in OcrTexts, t2 \in OcrTexts, tesseract \in BOOLEAN :
                 /\ extracted' = extract_text_via_ocr(TempPath, content, 0, t1, t2, tesseract)
                 /\ passes' = ocr_reads(TempPath, content, t1, t2, tesseract)
          /\ native' = None
          /\ ocr_calls' = 1
          /\ pc' = "extract"
    /\ UNCHANGED <<fvars, world, selection, idx, collected, tmp_files, downloaded,
                   content, actual_mime, kind, written, run_result, ui>>

\* the rest of the try block (the texts of the passes, names of the call of
\* extract_text_via_ocr, are kept up to here for the properties only): a
\* file without text is recorded and skipped;
\* otherwise the fields are extracted and the row and the record appended,
\* or the extraction raises
ExtractFields ==
    /\ pc = "extract"
    /\ IF no_text(extracted)
       THEN /\ processed_rows' =
                   Append(processed_rows, proc_record(fid, clock, "no_text_extracted"))
            /\ pc' = "finally"
            /\ UNCHANGED results_rows
       ELSE \/ /\ results_rows' =
                      Append(results_rows,
                             data_row(fid, clock, extract_fields_from_text(extracted)))
               /\ processed_rows' =
                      Append(processed_rows, proc_record(fid, clock, "processed_ok"))
               /\ pc' = "finally"
            \/ /\ pc' = "except"
               /\ UNCHANGED collected
    /\ passes' = <<>>
    /\ UNCHANGED <<fvars, world, selection, idx, tmp_files, downloaded, content,
                   actual_mime, kind, branch, native, ocr_calls, extracted, written,
                   run_result, ui>>

\* a variant that shows the error and records nothing
HandleError_unrecorded ==
    /\ pc = "except"
    /\ pc' = "finally"
    /\ UNCHANGED <<fvars, world, selection, idx, collected, tmp_files, downloaded,
                   locals, written, run_result, ui>>

\* except Exception: the error is shown and recorded
HandleError ==
    /\ pc = "except"
    /\ processed_rows' = Append(processed_rows, proc_record(fid, clock, "error"))
    /\ pc' = "finally"
    /\ UNCHANGED <<fvars, world, selection, idx, results_rows, tmp_files, downloaded,
                   locals, written, run_result, ui>>

\* a variant that removes the temporary file at the end of the try block
\* only, so not after an exception
Finally_after_try ==
    /\ pc = "finally"
    /\ tmp_files' =
           IF processed_rows[Len(processed_rows)].note = "error" THEN tmp_files
           ELSE tmp_files \ {TempName(clock, files_to_process[idx])}
    /\ idx' = idx + 1
    /\ pc' = "loop"
    /\ DropLocals
    /\ UNCHANGED <<fvars, world, selection, collected, downloaded, written, run_result,
                   ui>>

\* finally: os.unlink(tmpf.name), and on to the next file.  Each name of the
\* pass is bound again before the next pass reads it.
Finally ==
    /\ pc = "finally"
    /\ tmp_files' = tmp_files \ {TempName(clock, fid)}
    /\ idx' = idx + 1
    /\ pc' = "loop"
    /\ DropLocals
    /\ UNCHANGED <<fvars, world, selection, collected, downloaded, written, run_result,
                   ui>>

\* the write of the data sheet: nothing without new rows; otherwise the
\* combined frame is built, the sheet cleared and the frame written.  clear()
\* may raise, which leaves the sheet as it was, and so may the write after
\* it, which leaves the sheet cleared.
WriteData ==
    /\ pc = "write_data"
    /\ IF results_rows = <<>>
       THEN UNCHANGED <<combined_df, ws_data>>
       ELSE /\ combined_df' = Frame(upsert_data(existing_data_df, results_rows))
            /\ \/ ws_data' = [header |-> TRUE, rows |-> combined_df'.rows]
               \/ ws_data' = EmptySheet
               \/ UNCHANGED ws_data
    /\ pc' = "write_ledger"
    /\ UNCHANGED <<fvars, cv2, folder, clock, ws_proc, selection, idx, collected,
                   tmp_files, downloaded, locals, existing_proc_df, combined_proc,
                   run_result, ui>>

\* the write of the ledger: nothing without records; otherwise the ledger is
\* read again (which may raise, before combined_proc is bound), the combined
\* frame built, the sheet cleared and the frame written, clear() and the
\* write failing as for the data sheet
WriteLedger ==
    /\ pc = "write_ledger"
    /\ IF processed_rows = <<>>
       THEN UNCHANGED <<existing_proc_df, combined_proc, ws_proc>>
       ELSE \/ UNCHANGED <<existing_proc_df, combined_proc, ws_proc>>
            \/ /\ existing_proc_df' = Frame(ws_proc.rows)
               /\ combined_proc' = Frame(upsert_proc(ws_proc.rows, processed_rows))
               /\ \/ ws_proc' = [header |-> TRUE, rows |-> combined_proc'.rows]
                  \/ ws_proc' = EmptySheet
                  \/ UNCHANGED ws_proc
    /\ pc' = "summary"
    /\ UNCHANGED <<fvars, cv2, folder, clock, ws_data, selection, idx, collected,
                   tmp_files, downloaded, locals, combined_df, run_result, ui>>

\* the summary: the counts, then combined_df.empty and combined_proc.empty
\* are read, which raises NameError for a name no write has bound.  The run
\* is over either way and its names are gone.
Summary ==
    LET \* the names of the run are dropped
        DropRun ==
            /\ reprocess_all' = FALSE
            /\ files_to_process' = <<>>
            /\ existing_data_df' = <<>>
            /\ idx' = 0
            /\ results_rows' = <<>>
            /\ processed_rows' = <<>>
            /\ downloaded' = {}
            /\ combined_df' = Unbound
            /\ existing_proc_df' = Unbound
            /\ combined_proc' = Unbound
    IN  /\ pc = "summary"
        /\ run_result' = IF combined_df.bound /\ combined_proc.bound THEN "ok" ELSE "NameError"
        /\ pc' = "idle"
        /\ DropRun
        /\ UNCHANGED <<fvars, world, tmp_files, locals, ui>>

Next ==
    \/ Upload
    \/ PressClear
    \/ ToggleConfirm
    \/ PressCancel
    \/ EditSpreadsheetId
    \/ PressMain
    \/ ClearButton
    \/ ConfirmClear
    \/ EndScript
    \/ StartRun
    \/ NextFile
    \/ Download
    \/ DetectKind
    \/ AcquireText
    \/ ExtractFields
    \/ HandleError
    \/ Finally
    \/ WriteData
    \/ WriteLedger
    \/ Summary

Spec == Init /\ [][Next]_vars

(***************************************************************************)
(* C1: the item section of the item loop.                                  *)
(***************************************************************************)
ScanLines == splitlines(text)

C1_KeywordLine(n, kws) ==
    \E u \in {upper(strip(ScanLines[n]))} :
        \E k \in 1..Len(kws) : contains(u, kws[k])

C1_IsStartKw(n) == C1_KeywordLine(n, start_keywords)

C1_IsEndKw(n) == C1_KeywordLine(n, end_keywords)

C1_IsStart(n) == C1_IsStartKw(n) /\ Len(strip(ScanLines[n])) < 100

\* the first of the lines ns, 0 when there is none
C1_First(ns) == IF ns = {} THEN 0 ELSE Min(ns)

\* every captured line lies strictly between start line s and the first
\* end-keyword line after it (s = 0: there is no start line)
C1_InSection(s) ==
    \E e \in {C1_First({n \in (s + 1)..Len(ScanLines) : s # 0 /\ C1_IsEndKw(n)})} :
        \A i \in 1..Len(scan.captured) :
            /\ s # 0
            /\ scan.captured[i] > s
            /\ e = 0 \/ scan.captured[i] < e

ScanPhase ==
    IF fpc = "start" THEN "before-items"
    ELSE IF fpc = "returned" \/ scan.stopped \/ lineNo > Len(lines) THEN "done"
    ELSE IF scan.in_items_section THEN "in-items" ELSE "before-items"

C1_NoWayBack ==
    /\ ScanPhase = "done" => ScanPhase' = "done"
    /\ ScanPhase = "in-items" => ScanPhase' # "before-items"

\* C1 as stated: no line before the first line matching a start keyword, and
\* no line at or after the first end-keyword line following it, is captured
C1_Original ==
    scan.captured # <<>> =>
        \E s \in {C1_First({n \in 1..Len(ScanLines) : C1_IsStartKw(n)})} : C1_InSection(s)

\* C1, the section as the loop opens it: every captured line lies after the
\* first start-keyword line of fewer than 100 characters and before the first
\* end-keyword line following that line
C1_CapturedInSection ==
    scan.captured # <<>> =>
        \E s \in {C1_First({n \in 1..Len(ScanLines) : C1_IsStart(n)})} : C1_InSection(s)

\* C1: captured lines lie in the item section, which opens at the first
\* start-keyword line shorter than 100 characters and closes at the first
\* end-keyword line after it, and a scan that has left the section (end
\* keyword or end of text) never re-enters it nor goes back before it
C1_ItemSection == []C1_CapturedInSection /\ [][C1_NoWayBack]_vars

\* C1: a scan that captured lines and was closed by an end keyword
C1_Witness == fpc = "returned" /\ scan.captured # <<>> /\ scan.stopped

(***************************************************************************)
(* C9: the date fallback law.                                              *)
(***************************************************************************)
\* the dates found in the 60-character windows that start at the indices
\* index(U, kw) of the date keywords in the upper-cased text U
C9_Anchored(U, index(_, _)) ==
    {DATE_RE_search(Slice(text, i, i + 60)) :
        i \in UNION {index(U, date_keywords[k]) : k \in 1..Len(date_keywords)}} \ {None}

\* the index of the first occurrence of kw, as str.find gives it
C9_FirstIndex(U, kw) == {find(U, kw)} \ {-1}

\* the indices of all occurrences of kw
C9_AnyIndex(U, kw) == {i \in 0..(Len(U) - Len(kw)) : LitAt(U, i + 1, kw)}

C9_Law(index(_, _)) ==
    fpc # "start" =>
        \E U \in {upper(text)} :
        \E whole \in {DATE_RE_search(text)} :
        \E anchored \in {C9_Anchored(U, index)} :
            /\ whole = None => out.data_compra = None
            /\ anchored # {} => out.data_compra \in anchored
            /\ anchored = {} => out.data_compra = whole

\* C9 as stated: data_compra is null when no date matches anywhere; when a
\* date matches in the 60-character window at some occurrence of a date
\* keyword the stored date is such an anchored match; the whole-text search
\* is used only when no keyword window yields a match
C9_Original == C9_Law(C9_AnyIndex)

\* C9: the same law with the windows the code looks at, one per keyword, at
\* the index of the first occurrence of the keyword in the upper-cased text
C9_DateFallback == C9_Law(C9_FirstIndex)

\* C9: a text whose first date is unanchored and whose stored date is the
\* anchored one
C9_Witness ==
    /\ fpc = "returned"
    /\ \E U \in {upper(text)} :
           /\ C9_Anchored(U, C9_FirstIndex) # {}
           /\ DATE_RE_search(text) \notin C9_Anchored(U, C9_FirstIndex)
           /\ out.data_compra \in C9_Anchored(U, C9_FirstIndex)


(***************************************************************************)
(* C11: the monetary total.                                                *)
(***************************************************************************)
\* the values found in the 150-character windows that start at the indices
\* index(U, kw) of the total keywords in the upper-cased text U
C11_Labelled(U, index(_, _)) ==
    {normalize_money(VAL_RE_search(Slice(text, i, i + 150))) :
        i \in UNION {index(U, total_keywords[k]) : k \in 1..Len(total_keywords)}}
    \ {NoAmount}

\* the values of all currency-shaped numbers of the text
C11_AllValues == nums_parsed(VAL_RE_findall(text))

C11_Law(index(_, _)) ==
    fpc # "start" =>
        \E all \in {C11_AllValues} :
        \E labelled \in {C11_Labelled(upper(text), index)} :
            /\ all = {} => out.valor_total = NoAmount
            /\ labelled # {} => out.valor_total \in labelled
            /\ labelled = {} /\ all # {} => out.valor_total = Max(all)

\* C11 as stated: when a total label occurs and a currency-shaped number
\* lies in the 150-character window after it, the total is such a labelled
\* number even if a larger number occurs elsewhere; the maximum of all
\* numbers is taken only when no label window yields a value; the total is
\* null when the text has no currency-shaped number
C11_Original == C11_Law(C9_AnyIndex)

\* C11: the same law with the windows the code looks at, one per keyword, at
\* the index of the first occurrence of the keyword in the upper-cased text
C11_TotalAnchored == C11_Law(C9_FirstIndex)

\* C11: a text whose largest number is not labelled and whose total is the
\* labelled one
C11_Witness ==
    /\ fpc = "returned"
    /\ \E labelled \in {C11_Labelled(upper(text), C9_FirstIndex)} :
           /\ labelled # {}
           /\ Max(C11_AllValues) \notin labelled
           /\ out.valor_total \in labelled

(***************************************************************************)
(* C12: the shape of the captured item lines.                              *)
(***************************************************************************)
\* a currency-shaped number: digits, a comma or a point, two digits
C12_HasCurrency(l) == has_comma_money(l) \/ has_dot_money(l)

C12_HasDigit(l) == \E i \in 1..Len(l) : l[i] \in Digit

C12_Blocked(l) ==
    \E u \in {upper(l)} :
        \E k \in 1..Len(ignore_keywords_items) : contains(u, ignore_keywords_items[k])

C14_Before == IF out.cnpj = None THEN <<>> ELSE lines_before(text, find(text, out.cnpj))

\* the places of the lines each tier accepts, the first tier looking at the
\* last depth lines before the tax id
C14_TierA(before, depth) ==
    {i \in DOMAIN before : i > Len(before) - depth /\ looks_like_company(before[i])}

C14_TierB(ls) ==
    {i \in DOMAIN ls :
        /\ i <= 10
        /\ \E k \in 1..Len(company_keywords_strong) :
               has_strong_keyword(ls[i], company_keywords_strong[k])}

C14_TierC(ls) == {i \in DOMAIN ls : i <= 3 /\ looks_like_heading(ls[i])}

C14_Law(depth) ==
    fpc # "start" =>
        \E ls \in {stripped_lines(text)} :
        \E before \in {C14_Before} :
        \E a \in {C14_TierA(before, depth)} :
        \E b \in {C14_TierB(ls)} :
        \E c \in {C14_TierC(ls)} :
            /\ a # {} => out.empresa = before[Max(a)]
            /\ a = {} /\ b # {} => out.empresa \in {ls[i] : i \in b}
            /\ a = {} /\ b = {} /\ c # {} => out.empresa = ls[Min(c)]
            /\ a = {} /\ b = {} /\ c = {} => out.empresa = None

\* C14 as stated: the first tier takes the nearest accepted line among the
\* three lines above the tax id (and the beginning of its own line), never
\* a line further up; the second and third tiers are used only when the
\* tiers before found nothing; the name is null when no tier accepts a line
C14_Original == C14_Law(4)

\* C14: the same tiers, the first one looking at every non-empty line before
\* the tax id, nearest first, however far up
C14_SupplierTiers == C14_Law(Len(text) + 1)

\* C14: a text whose first tier took a line more than three lines above the
\* tax id
C14_Witness ==
    /\ fpc = "returned"
    /\ out.cnpj # None
    /\ \E a \in {C14_TierA(C14_Before, Len(text) + 1)} :
           /\ a # {}
           /\ Max(a) < Len(C14_Before) - 4
           /\ out.empresa = C14_Before[Max(a)]
(***************************************************************************)
(* C2: files recorded in the ledger are not processed again.               *)
(***************************************************************************)
\* the positions of a run at which the ledger is as it was read
BeforeLedgerWrite ==
    {"loop", "download", "detect", "acquire", "extract", "except", "finally",
     "write_data", "write_ledger"}

C3_Upsert ==
    pc = "write_ledger" =>
        /\ \A i, j \in DOMAIN ws_data.rows :
               ws_data.rows[i].drive_file_id = ws_data.rows[j].drive_file_id => i = j
        /\ \A k \in DOMAIN results_rows : results_rows[k] \in Range(ws_data.rows)
        /\ \A k \in DOMAIN existing_data_df :
               (\A n \in DOMAIN results_rows :
                    results_rows[n].drive_file_id # existing_data_df[k].drive_file_id)
                   => existing_data_df[k] \in Range(ws_data.rows)

(***************************************************************************)
(* C4: one ledger record per file, whatever happens to it.                 *)
(***************************************************************************)
\* C4: the loop passes every file of files_to_process; each pass leaves
\* exactly one ledger record, for that file, with note processed_ok,
\* no_text_extracted or error; the file has a data row exactly when its
\* note is processed_ok
C4_OneRecordPerFile ==
    /\ pc \in {"loop", "download", "detect", "acquire", "extract", "except"}
           => Len(processed_rows) = idx - 1
    /\ pc = "finally" => Len(processed_rows) = idx
    /\ pc \in {"write_data", "write_ledger", "summary"}
           => Len(processed_rows) = Len(files_to_process)
    /\ \A k \in DOMAIN processed_rows :
           /\ processed_rows[k].fileId = files_to_process[k]
           /\ processed_rows[k].note \in {"processed_ok", "no_text_extracted", "error"}
           /\ Cardinality({n \in DOMAIN results_rows :
                              results_rows[n].drive_file_id = processed_rows[k].fileId})
                  = IF processed_rows[k].note = "processed_ok" THEN 1 ELSE 0

\* C4: a loop that went on after a file that raised and extracted the next
C4_Witness ==
    /\ pc = "write_data"
    /\ Len(processed_rows) = 2
    /\ processed_rows[1].note = "error"
    /\ processed_rows[2].note = "processed_ok"

(***************************************************************************)
(* C5: a run never crashes.                                                *)
(***************************************************************************)
\* C5 as stated: every run reaches the end of the summary without an
\* uncaught error
C5_NeverCrashes == run_result # "NameError"

C7_OcrEscalation ==
    (pc \in {"extract", "except", "finally"} /\ branch = "pdf") =>
        ((native = <<>> \/ Len(strip(native)) < 30) <=> ocr_calls >= 1)

\* C7: a PDF whose native text has 30 characters as read and 29 once
\* stripped, and for which OCR was called
C7_Witness ==
    /\ pc = "extract"
    /\ branch = "pdf"
    /\ Len(native) = 30
    /\ Len(strip(native)) = 29
    /\ ocr_calls = 1

(***************************************************************************)
(* C8: a file that matches no rule of the type dispatch.                   *)
(***************************************************************************)
\* the ledger record of the pass that is ending
LastRecord == processed_rows[Len(processed_rows)]

\* the file of the pass that is ending has a data row
HasRow == \E n \in DOMAIN results_rows : results_rows[n].drive_file_id = fid

C13_LongerWins ==
    (pc = "extract" /\ passes # <<>>) =>
        IF Len(strip(passes[1])) >= 50
        THEN Len(passes) = 1 /\ extracted = passes[1]
        ELSE /\ Len(passes) = 2
             /\ extracted = IF Len(strip(passes[2])) > Len(strip(passes[1]))
                            THEN passes[2] ELSE passes[1]

(***************************************************************************)
(* C15: the ledger against the data sheet.                                 *)
(***************************************************************************)
\* C15 as stated: when both writes of a run are over, every file the ledger
\* records with the note processed_ok has a row in the data sheet
C15_RecordedHasRow ==
    pc = "summary" =>
        \A i \in DOMAIN ws_proc.rows :
            ws_proc.rows[i].note = "processed_ok" =>
                \E j \in DOMAIN ws_data.rows :
                    ws_data.rows[j].drive_file_id = ws_proc.rows[i].fileId

(***************************************************************************)
(* C16: a write that fails.                                                *)
(***************************************************************************)
\* C16 as stated: a write step of the data sheet or of the ledger that does
\* not leave the combined frame in the sheet leaves the rows the sheet had
C16_FailedWriteKeepsRows ==
    [][/\ (/\ pc = "write_data"
           /\ results_rows # <<>>
           /\ ws_data'.rows # upsert_data(existing_data_df, results_rows))
          => ws_data'.rows = ws_data.rows
       /\ (/\ pc = "write_ledger"
           /\ processed_rows # <<>>
           /\ ws_proc'.rows # upsert_proc(ws_proc.rows, processed_rows))
          => ws_proc'.rows = ws_proc.rows]_vars

(***************************************************************************)
(* C17: the upsert into the ledger.                                        *)
(***************************************************************************)
\* C17: a ledger write that succeeds (the step leaves a sheet that is
\* neither the former one nor empty) leaves one record per fileId, the
\* record of this run for every file of the run, the former record of
\* every other file, and nothing else
C17_LedgerUpsert ==
    [][(/\ pc = "write_ledger"
        /\ processed_rows # <<>>
        /\ ws_proc' # ws_proc
        /\ ws_proc' # EmptySheet)
       => /\ \A i, j \in DOMAIN ws_proc'.rows :
                 ws_proc'.rows[i].fileId = ws_proc'.rows[j].fileId => i = j
          /\ \A k \in DOMAIN processed_rows :
                 /\ processed_rows[k] \in Range(ws_proc'.rows)
                 /\ processed_rows[k].processed_at = clock
          /\ \A k \in DOMAIN ws_proc.rows :
                 ws_proc.rows[k].fileId \notin processed_ids(processed_rows)
                     => ws_proc.rows[k] \in Range(ws_proc'.rows)
          /\ Range(ws_proc'.rows) \subseteq Range(ws_proc.rows) \cup Range(processed_rows)]_vars

\* C17: the ledger was written by a run that handled again a file the
\* ledger had a record of, and the record of an earlier instant is gone
C17_Witness ==
    /\ pc = "summary"
    /\ combined_proc.bound
    /\ ws_proc = [header |-> TRUE, rows |-> combined_proc.rows]
    /\ \E i \in DOMAIN existing_proc_df.rows :
           /\ existing_proc_df.rows[i].fileId \in processed_ids(processed_rows)
           /\ existing_proc_df.rows[i].processed_at < clock
           /\ existing_proc_df.rows[i] \notin Range(ws_proc.rows)

(***************************************************************************)
(* C18: the confirmation before the sheets are cleared.                    *)
(***************************************************************************)
\* C18: outside the main block a sheet changes only in the confirmation
\* block, with the flag set, the checkbox ticked and a spreadsheet id; the
\* step of a clear attempt and the step that takes a cancel leave the flag
\* reset; and the flag is set only by a press of the clear button
C18_ConfirmProtocol ==
    [][/\ (/\ pc \in {"idle", "script", "confirm"}
           /\ <<ws_data, ws_proc>>' # <<ws_data, ws_proc>>)
          => /\ pc = "confirm"
             /\ confirm_clear_clicked
             /\ confirm_clear_final
             /\ spreadsheet_id
       /\ (/\ pc = "confirm"
           /\ confirm_clear_clicked
           /\ \/ confirm_clear_final /\ spreadsheet_id
              \/ ~confirm_clear_final /\ pressed = "cancel")
          => ~confirm_clear_clicked'
       /\ (~confirm_clear_clicked /\ confirm_clear_clicked')
          => pc = "script" /\ pressed = "clear"]_vars

\* C18: both sheets have just been cleared after a run, the flag is reset
\* and the script is about to run again
C18_Witness ==
    /\ pc = "script"
    /\ pressed = "none"
    /\ clock > 0
    /\ confirm_clear_final
    /\ ~confirm_clear_clicked
    /\ ws_data = ClearedSheet
    /\ ws_proc = ClearedSheet
====
